---- MODULE Spec2Model ----
(***************************************************************************)
(* Model of js/face.js: the face-gesture controller of the Gold Miner      *)
(* game.  It covers the startup sequence of initGameFaceDetection (video   *)
(* element and FaceMesh checks, setupGameCamera and its promise), the      *)
(* frame pacer of startGameFrameProcessing, and the faceMesh.onResults     *)
(* handler with its two classifiers detectGameSmile and detectGameNod.     *)
(*                                                                         *)
(* Numbers.  The smile score of line 105 and the nose-tip y of line 130    *)
(* are carried in thousandths: the threshold 0.28 is 280 and the nod       *)
(* threshold 0.003 is 3.  A mean "sum / length > t" is compared as         *)
(* "sum > t * length", which is the same comparison without a division.    *)
(* A landmark set is abstracted to what the handler reads from it: whether *)
(* the four mouth landmarks are there, the score line 105 computes from    *)
(* them, whether the nose tip is there, and its y.                         *)
(***************************************************************************)
EXTENDS Integers, Sequences, FiniteSets, TLC

VARIABLES
    gameGestureState,  \* the object of lines 28-37
    pc,                \* position of the async function initGameFaceDetection
    env,               \* what the page provides: #faceCam, FaceMesh, a working constructor
    camPromise,        \* the promise of lines 228-240: "none", "pending", "resolved", "rejected"
    videoPhase,        \* the video element: "idle", "loading", "playCalled", "settled"
    timerArmed,        \* the setTimeout of line 239 has not fired yet
    videoReady,        \* videoEl.videoWidth # 0 and videoEl.readyState >= 2
    isProcessing,      \* line 252
    frameSkipCounter,  \* line 253
    raf,               \* number of processGameFrame callbacks requestAnimationFrame holds
    inflight,          \* number of faceMesh.send promises not yet settled
    events,            \* what the last step emitted, in order (setStatus texts and CustomEvents)
    results,           \* the results object the last onResults call received
    smilePulse,        \* return value of detectGameSmile in the last onResults call
    nodPulse,          \* return value of detectGameNod in the last onResults call
    sent,              \* history: number of faceMesh.send calls
    cameraRequested,   \* history: getUserMedia was called
    fallbackCount,     \* history: number of face:fallback events
    smileCount,        \* history: number of face:smile events
    nodCount,          \* history: number of face:nod events
    acquiredCount,     \* history: number of face-acquired status changes
    lastSmileFrame,    \* history: frameCount of the last smile pulse, 0 if none
    lastNodFrame,      \* history: frameCount of the last nod pulse, 0 if none
    closed,            \* window.goldMinerFaceCleanup has run (lines 297-306)
    lastSentTick,      \* history: frameSkipCounter of the callback that last called send, 0 if none
    smoother           \* a smoothing window on its own, for SpecSmooth

gestureRest == <<gameGestureState, results, smilePulse, nodPulse, smileCount,
                 nodCount, acquiredCount, lastSmileFrame, lastNodFrame, smoother>>
gestureVars == <<gameGestureState, events, results, smilePulse, nodPulse, smileCount,
                 nodCount, acquiredCount, lastSmileFrame, lastNodFrame, smoother>>
startVars   == <<pc, env, camPromise, videoPhase, timerArmed, cameraRequested, fallbackCount>>
pacerVars   == <<videoReady, isProcessing, frameSkipCounter, raf, inflight, sent,
                 closed, lastSentTick>>
vars        == <<gestureVars, startVars, pacerVars>>

----------------------------------------------------------------------------
(* Bounds of the model *)

MaxFrames     == 5     \* processed frames in SpecFrames
MaxSent       == 3     \* faceMesh.send calls in Spec
MaxCoolFrames == 122   \* processed frames in SpecCool
MaxTicks      == 8     \* processGameFrame callbacks in Spec
MaxDrops      == 3     \* times the face drops out in SpecCool

(* Program constants *)

SMILE_WINDOW    == 4     \* line 108
NOD_WINDOW      == 6     \* line 136
SMILE_THRESHOLD == 280   \* line 111: 0.28, in thousandths
NOD_THRESHOLD   == 3     \* line 139: 0.003, in thousandths
SMILE_COOLDOWN  == 120   \* line 112
NOD_COOLDOWN    == 45    \* line 140
STATUS_PERIOD   == 150   \* line 191
NoNoseY         == -1    \* lastNoseY: null (line 33); every real y is >= 0

----------------------------------------------------------------------------
(* Utility functions *)

RECURSIVE Sum(_)
Sum(s) ==
    IF s = <<>> THEN 0
    ELSE IF Len(s) = 1 THEN s[1]
    ELSE LET half == Len(s) \div 2
         IN  Sum(SubSeq(s, 1, half)) + Sum(SubSeq(s, half + 1, Len(s)))

\* a smoothBuffer that never evicts
smoothBufferNoShift(buffer, newValue, maxSize) == Append(buffer, newValue)

\* a smoothBuffer that drops the newest value instead of the oldest
smoothBufferPop(buffer, newValue, maxSize) ==
    LET pushed == Append(buffer, newValue)
    IN  IF Len(pushed) > maxSize THEN SubSeq(pushed, 1, maxSize) ELSE pushed

\* smoothBuffer: the buffer after the push and the shift.  Its return value,
\* the mean, is Sum(buffer) / Len(buffer) of the buffer returned here.
smoothBuffer(buffer, newValue, maxSize) ==
    LET pushed == Append(buffer, newValue)
    IN  IF Len(pushed) > maxSize THEN Tail(pushed) ELSE pushed

\* line 79: the value smoothBuffer returns, as the sum and the number of the
\* values it divides
smoothBufferReturn(buffer) == [sum |-> Sum(buffer), n |-> Len(buffer)]

\* "mean of buffer > threshold" (lines 111 and 139)
MeanExceeds(buffer, threshold) == Sum(buffer) > threshold * Len(buffer)

----------------------------------------------------------------------------
(* The classifiers.  Each takes the gesture state and a landmark set and     *)
(* gives its return value and the gesture state it leaves.                  *)

\* a detectGameSmile that forgets to look at its cooldown
SmileFiresNoCooldown(cooldown, buffer) ==
    MeanExceeds(buffer, SMILE_THRESHOLD)

\* line 111: the condition under which detectGameSmile fires
SmileFires(cooldown, buffer) ==
    cooldown <= 0 /\ MeanExceeds(buffer, SMILE_THRESHOLD)

detectGameSmile(g, landmarks) ==
    IF ~landmarks.mouth
    THEN [ret |-> FALSE, g |-> g]                                   \* lines 90-92
    ELSE LET buffer == smoothBuffer(g.smileBuffer, landmarks.score, SMILE_WINDOW)
         IN  IF SmileFires(g.smileCooldown, buffer)
             THEN [ret |-> TRUE,                                    \* lines 111-115
                   g   |-> [g EXCEPT !.smileCooldown = SMILE_COOLDOWN,
                                     !.smileBuffer = <<>>]]
             ELSE [ret |-> FALSE, g |-> [g EXCEPT !.smileBuffer = buffer]]

\* line 139: the condition under which detectGameNod fires
NodFires(cooldown, buffer) ==
    cooldown <= 0 /\ MeanExceeds(buffer, NOD_THRESHOLD)

\* a detectGameNod without the null test of line 132: in JavaScript
\* "y - null" is y - 0
detectGameNodNoBaseline(g, landmarks) ==
    IF ~landmarks.nose
    THEN [ret |-> FALSE, g |-> g]
    ELSE LET last   == IF g.lastNoseY = NoNoseY THEN 0 ELSE g.lastNoseY
             buffer == smoothBuffer(g.nodBuffer, landmarks.y - last, NOD_WINDOW)
         IN  IF NodFires(g.nodCooldown, buffer)
             THEN [ret |-> TRUE,
                   g   |-> [g EXCEPT !.nodCooldown = NOD_COOLDOWN, !.nodBuffer = <<>>]]
             ELSE [ret |-> FALSE,
                   g   |-> [g EXCEPT !.nodBuffer = buffer, !.lastNoseY = landmarks.y]]

\* a detectGameNod that starts its cooldown only once the game has started
detectGameNodStartedOnly(g, landmarks) ==
    IF ~landmarks.nose
    THEN [ret |-> FALSE, g |-> g]
    ELSE IF g.lastNoseY # NoNoseY
    THEN LET buffer == smoothBuffer(g.nodBuffer, landmarks.y - g.lastNoseY, NOD_WINDOW)
         IN  IF NodFires(g.nodCooldown, buffer)
             THEN [ret |-> TRUE,
                   g   |-> [g EXCEPT !.nodCooldown = IF g.gameStarted THEN NOD_COOLDOWN ELSE @,
                                     !.nodBuffer = <<>>]]
             ELSE [ret |-> FALSE,
                   g   |-> [g EXCEPT !.nodBuffer = buffer, !.lastNoseY = landmarks.y]]
    ELSE [ret |-> FALSE, g |-> [g EXCEPT !.lastNoseY = landmarks.y]]

detectGameNod(g, landmarks) ==
    IF ~landmarks.nose
    THEN [ret |-> FALSE, g |-> g]                                   \* line 128
    ELSE IF g.lastNoseY # NoNoseY
    THEN LET buffer == smoothBuffer(g.nodBuffer, landmarks.y - g.lastNoseY, NOD_WINDOW)
         IN  IF NodFires(g.nodCooldown, buffer)
             THEN [ret |-> TRUE,                                    \* lines 139-143:
                   g   |-> [g EXCEPT !.nodCooldown = NOD_COOLDOWN,  \* returns before line 146
                                     !.nodBuffer = <<>>]]
             ELSE [ret |-> FALSE,
                   g   |-> [g EXCEPT !.nodBuffer = buffer, !.lastNoseY = landmarks.y]]
    ELSE [ret |-> FALSE, g |-> [g EXCEPT !.lastNoseY = landmarks.y]]

\* a handler that forgets the nod cooldown
UpdateCooldownsSmileOnly(g) ==
    [g EXCEPT !.smileCooldown = IF @ > 0 THEN @ - 1 ELSE @]

\* lines 206-208
UpdateCooldowns(g) ==
    [g EXCEPT !.smileCooldown = IF @ > 0 THEN @ - 1 ELSE @,
              !.nodCooldown   = IF @ > 0 THEN @ - 1 ELSE @]

----------------------------------------------------------------------------
(* faceMesh.onResults (lines 155-209), as a function of the gesture state   *)
(* and the results object: the state it leaves, what it emitted in order,   *)
(* and what the two classifiers returned.                                   *)

\* line 158: results.multiFaceLandmarks && results.multiFaceLandmarks.length > 0
HasFace(res) == res.face

\* a level-triggered status: every frame with a face counts as an acquisition
FaceAcquiredLevel(g, res) == HasFace(res)

\* lines 162-169
FaceAcquired(g, res) == HasFace(res) /\ ~g.faceDetected

\* a handler that dispatches every nod pulse
NodDispatchedAlways(pulse, started) == pulse

\* lines 184-187: the nod event is dispatched under this condition
NodDispatched(pulse, started) == pulse /\ started

\* a handler that dispatches the smile event only with the start of the game
SmileEmitsOnStart(started) ==
    IF ~started THEN <<"status:game-started", "face:smile">> ELSE <<>>

\* lines 173-179: what the handler emits when detectGameSmile returned true
SmileEmits(started) ==
    (IF ~started THEN <<"status:game-started">> ELSE <<>>) \o <<"face:smile">>

\* a handler that tests the counter as it was before line 156 incremented it
PeriodicDueBeforeIncrement(count) == (count - 1) % STATUS_PERIOD = 0

\* line 191
PeriodicDue(count) == count % STATUS_PERIOD = 0

onResults(g, res) ==
    LET g0 == [g EXCEPT !.frameCount = @ + 1]                       \* line 156
    IN  IF HasFace(res)
        THEN LET acq    == FaceAcquired(g0, res)
                 g1     == IF acq THEN [g0 EXCEPT !.faceDetected = TRUE] ELSE g0
                 e1     == IF acq
                           THEN <<IF g0.gameStarted THEN "status:controls-active"
                                                    ELSE "status:smile-to-start">>
                           ELSE <<>>
                 smile  == detectGameSmile(g1, res)                 \* line 172
                 g2     == IF smile.ret
                           THEN [smile.g EXCEPT !.gameStarted = TRUE]
                           ELSE smile.g
                 e2     == IF smile.ret THEN SmileEmits(smile.g.gameStarted) ELSE <<>>
                 nod    == detectGameNod(g2, res)                   \* line 182
                 g3     == nod.g
                 e3     == IF NodDispatched(nod.ret, g3.gameStarted)
                           THEN <<"face:nod">> ELSE <<>>
                 e4     == IF PeriodicDue(g3.frameCount)            \* lines 191-196
                           THEN <<IF g3.gameStarted THEN "status:tracking-playing"
                                                    ELSE "status:tracking-idle">>
                           ELSE <<>>
             IN  [g |-> UpdateCooldowns(g3), events |-> e1 \o e2 \o e3 \o e4,
                  smile |-> smile.ret, nod |-> nod.ret]
        ELSE LET lost == g0.faceDetected                            \* lines 198-204
                 g1   == IF lost THEN [g0 EXCEPT !.faceDetected = FALSE] ELSE g0
             IN  [g |-> UpdateCooldowns(g1),
                  events |-> IF lost THEN <<"status:no-face">> ELSE <<>>,
                  smile |-> FALSE, nod |-> FALSE]

Count(seq, e) == Cardinality({i \in 1..Len(seq) : seq[i] = e})

IsAcquired(e) == e \in {"status:smile-to-start", "status:controls-active"}

\* One call of the handler: the gesture state, and the history of what it did.
Deliver(res) ==
    LET r == onResults(gameGestureState, res)
    IN  /\ gameGestureState' = r.g
        /\ events' = r.events
        /\ results' = res
        /\ smilePulse' = r.smile
        /\ nodPulse' = r.nod
        /\ smileCount' = smileCount + Count(r.events, "face:smile")
        /\ nodCount' = nodCount + Count(r.events, "face:nod")
        /\ acquiredCount' = acquiredCount
                            + Cardinality({i \in 1..Len(r.events) : IsAcquired(r.events[i])})
        /\ lastSmileFrame' = IF r.smile THEN r.g.frameCount ELSE lastSmileFrame
        /\ lastNodFrame' = IF r.nod THEN r.g.frameCount ELSE lastNodFrame
        /\ UNCHANGED smoother

----------------------------------------------------------------------------
(* Results objects *)

NoFace == [face |-> FALSE, mouth |-> FALSE, score |-> 0, nose |-> FALSE, y |-> 0]

Face(mouth, score, nose, y) ==
    [face |-> TRUE, mouth |-> mouth, score |-> score, nose |-> nose, y |-> y]

Scores == {0, 1000}      \* smile scores, thousandths
NoseYs == {0, 10}        \* nose-tip y, thousandths

\* every kind of results object: no face, and faces with or without the
\* mouth landmarks and the nose tip
Frames ==
    {NoFace}
    \cup {Face(TRUE, s, TRUE, y) : s \in Scores, y \in NoseYs}
    \cup {Face(FALSE, 0, TRUE, y) : y \in NoseYs}
    \cup {Face(TRUE, s, FALSE, 0) : s \in Scores}
    \cup {Face(FALSE, 0, FALSE, 0)}

----------------------------------------------------------------------------
(* Initial state *)

\* the smoothing window of SpecSmooth, not in use
NoSmoother == [capacity |-> 0, window |-> <<>>, pushed |-> <<>>, ret |-> [sum |-> 0, n |-> 0]]

InitGesture ==
    /\ gameGestureState = [smileBuffer |-> <<>>, nodBuffer |-> <<>>,
                           smileCooldown |-> 0, nodCooldown |-> 0,
                           lastNoseY |-> NoNoseY, frameCount |-> 0,
                           faceDetected |-> FALSE, gameStarted |-> FALSE]
    /\ results = NoFace
    /\ smilePulse = FALSE
    /\ nodPulse = FALSE
    /\ smileCount = 0
    /\ nodCount = 0
    /\ acquiredCount = 0
    /\ lastSmileFrame = 0
    /\ lastNodFrame = 0

\* the pacer as startGameFrameProcessing leaves it (lines 252-253, 287),
\* after a startup that succeeded
InitRunning ==
    /\ events = <<"status:camera-ready", "status:ready">>
    /\ pc = "running"
    /\ env = [video |-> TRUE, lib |-> TRUE, ctor |-> TRUE]
    /\ camPromise = "resolved"
    /\ videoPhase = "settled"
    /\ timerArmed = TRUE
    /\ cameraRequested = TRUE
    /\ fallbackCount = 0
    /\ videoReady = TRUE
    /\ isProcessing = FALSE
    /\ frameSkipCounter = 0
    /\ raf = 1
    /\ inflight = 0
    /\ sent = 0
    /\ closed = FALSE
    /\ lastSentTick = 0

----------------------------------------------------------------------------
(* Startup: the async function initGameFaceDetection (lines 4-328)          *)

Init ==
    /\ InitGesture
    /\ smoother = NoSmoother
    /\ events = <<>>
    /\ pc = "start"
    /\ env \in [video : BOOLEAN, lib : BOOLEAN, ctor : BOOLEAN]
    /\ camPromise = "none"
    /\ videoPhase = "idle"
    /\ timerArmed = FALSE
    /\ cameraRequested = FALSE
    /\ fallbackCount = 0
    /\ videoReady = FALSE
    /\ isProcessing = FALSE
    /\ frameSkipCounter = 0
    /\ raf = 0
    /\ inflight = 0
    /\ sent = 0
    /\ closed = FALSE
    /\ lastSentTick = 0

\* what each failure handler emits, in order
NoLibraryExit   == <<"status:mediapipe-not-loaded", "face:fallback">>   \* lines 19-23
SetupCatch      == <<"status:camera-failed", "face:fallback">>          \* lines 242-247, then rethrows
InitCatch       == <<"status:unavailable", "face:fallback">>            \* lines 317-321
StartupCatch    == <<"status:failed", "face:fallback">>                 \* lines 323-328

Emit(es) ==
    /\ events' = es
    /\ fallbackCount' = fallbackCount + Count(es, "face:fallback")

\* lines 8-11: no #faceCam element; the function returns
NoVideoElement ==
    /\ pc = "start" /\ ~env.video
    /\ pc' = "returned"
    /\ Emit(<<>>)
    /\ UNCHANGED <<env, camPromise, videoPhase, timerArmed, cameraRequested, gestureRest, pacerVars>>

\* lines 19-23: FaceMesh is not defined
NoFaceMesh ==
    /\ pc = "start" /\ env.video /\ ~env.lib
    /\ pc' = "returned"
    /\ Emit(NoLibraryExit)
    /\ UNCHANGED <<env, camPromise, videoPhase, timerArmed, cameraRequested, gestureRest, pacerVars>>

\* lines 40-52 throw: the function's promise rejects and the handler of
\* lines 323-328 runs
ConstructorThrows ==
    /\ pc = "start" /\ env.video /\ env.lib /\ ~env.ctor
    /\ pc' = "rejected"
    /\ Emit(<<"status:starting">> \o StartupCatch)
    /\ UNCHANGED <<env, camPromise, videoPhase, timerArmed, cameraRequested, gestureRest, pacerVars>>

\* lines 25-216: the function runs up to the await of getUserMedia
RequestCamera ==
    /\ pc = "start" /\ env.video /\ env.lib /\ env.ctor
    /\ pc' = "getUserMedia"
    /\ cameraRequested' = TRUE
    /\ Emit(<<"status:starting", "status:requesting-camera">>)
    /\ UNCHANGED <<env, camPromise, videoPhase, timerArmed, gestureRest, pacerVars>>

\* getUserMedia rejects: the catch of setupGameCamera runs and rethrows into
\* the catch of lines 317-321
GetUserMediaRejects ==
    /\ pc = "getUserMedia"
    /\ pc' = "failed"
    /\ Emit(SetupCatch \o InitCatch)
    /\ UNCHANGED <<env, camPromise, videoPhase, timerArmed, cameraRequested, gestureRest, pacerVars>>

\* getUserMedia resolves: lines 226-240 create the promise, set the two
\* video handlers and arm the timer; the function awaits the promise
GetUserMediaResolves ==
    /\ pc = "getUserMedia"
    /\ pc' = "awaitCamera"
    /\ camPromise' = "pending"
    /\ videoPhase' = "loading"
    /\ timerArmed' = TRUE
    /\ Emit(<<>>)
    /\ UNCHANGED <<env, cameraRequested, gestureRest, pacerVars>>

\* startGameFrameProcessing, lines 251-289: the first callback is requested
StartPacer ==
    /\ raf' = raf + 1
    /\ UNCHANGED <<videoReady, isProcessing, frameSkipCounter, inflight, sent, closed, lastSentTick>>

\* a rejection that reaches the catch of lines 317-321 whatever the promise
\* has become
RejectCameraAlways(before) ==
    /\ camPromise' = "rejected"
    /\ pc' = "failed"
    /\ Emit(before \o InitCatch)

\* reject(...) of the promise of line 228: nothing if it is settled; if it is
\* pending, the await of line 293 throws into the catch of lines 317-321
RejectCamera(before) ==
    IF camPromise = "pending"
    THEN /\ camPromise' = "rejected"
         /\ pc' = "failed"
         /\ Emit(before \o InitCatch)
    ELSE /\ UNCHANGED <<camPromise, pc>>
         /\ Emit(before)

\* line 229: onloadedmetadata calls videoEl.play()
LoadedMetadata ==
    /\ videoPhase = "loading"
    /\ videoPhase' = "playCalled"
    /\ Emit(<<>>)
    /\ UNCHANGED <<pc, env, camPromise, timerArmed, cameraRequested, gestureRest, pacerVars>>

\* lines 231-234: play() resolves; resolve() is nothing if the promise is
\* settled; if it is pending the function goes on to lines 294-315
PlayResolves ==
    /\ videoPhase = "playCalled"
    /\ videoPhase' = "settled"
    /\ IF camPromise = "pending"
       THEN /\ camPromise' = "resolved"
            /\ pc' = "running"
            /\ StartPacer
            /\ Emit(<<"status:camera-ready", "status:ready">>)
       ELSE /\ UNCHANGED <<camPromise, pc, pacerVars>>
            /\ Emit(<<"status:camera-ready">>)
    /\ UNCHANGED <<env, timerArmed, cameraRequested, gestureRest>>

\* line 235: play() rejects
PlayRejects ==
    /\ videoPhase = "playCalled"
    /\ videoPhase' = "settled"
    /\ RejectCamera(<<>>)
    /\ UNCHANGED <<env, timerArmed, cameraRequested, gestureRest, pacerVars>>

\* line 237: the video element reports an error while the promise is pending
\* (afterwards reject is nothing)
VideoError ==
    /\ camPromise = "pending"
    /\ RejectCamera(<<>>)
    /\ UNCHANGED <<env, videoPhase, timerArmed, cameraRequested, gestureRest, pacerVars>>

\* line 239: the timer fires, once, 10 seconds after it was armed, whatever
\* the promise has become
CameraTimeout ==
    /\ timerArmed
    /\ timerArmed' = FALSE
    /\ RejectCamera(<<>>)
    /\ UNCHANGED <<env, videoPhase, cameraRequested, gestureRest, pacerVars>>

\* the stream delivers its first decoded frame: videoWidth # 0, readyState >= 2
VideoFrameDecoded ==
    /\ camPromise # "none" /\ ~videoReady /\ ~closed
    /\ videoReady' = TRUE
    /\ UNCHANGED <<gestureVars, startVars, isProcessing, frameSkipCounter, raf, inflight, sent,
                   closed, lastSentTick>>

----------------------------------------------------------------------------
(* The pacer: processGameFrame (lines 255-285) and the settling of the      *)
(* promise of faceMesh.send                                                 *)

\* a pacer that clears the flag and requests the next callback right after
\* the send call instead of in finally
SubmitNoWait(r) ==
    [isProcessing |-> FALSE, raf |-> r + 1, inflight |-> inflight + 1, log |-> <<>>]

\* lines 268-279 when send returns its promise: the flag is set, and nothing
\* is requested until the promise settles
SubmitReturns(r) ==
    [isProcessing |-> TRUE, raf |-> r, inflight |-> inflight + 1, log |-> <<>>]

\* a catch block that clears the flag and forgets to request the next callback
SubmitThrowsNoRequest(r) ==
    [isProcessing |-> FALSE, raf |-> r, inflight |-> inflight,
     log |-> <<"warn:frame-send-error">>]

\* lines 280-284 when send throws
SubmitThrows(r) ==
    [isProcessing |-> FALSE, raf |-> r + 1, inflight |-> inflight,
     log |-> <<"warn:frame-send-error">>]

\* a promise chain whose catch and finally both request the next callback
SendSettlesTwice ==
    /\ inflight' = inflight - 1
    /\ isProcessing' = FALSE
    /\ raf' = raf + 2
    /\ UNCHANGED <<videoReady, frameSkipCounter, sent, closed, lastSentTick>>

\* lines 276-279: finally
SendSettles ==
    /\ inflight' = inflight - 1
    /\ isProcessing' = FALSE
    /\ raf' = raf + 1
    /\ UNCHANGED <<videoReady, frameSkipCounter, sent, closed, lastSentTick>>

\* line 263
Blocked == isProcessing \/ ~videoReady

\* a pacer without the frame skip
ShouldSkipNever(counter) == FALSE

\* line 258
ShouldSkip(counter) == counter % 2 # 0

\* lines 256-261: an odd callback only requests the next one
SkipFrame ==
    /\ raf > 0 /\ frameSkipCounter < MaxTicks
    /\ ShouldSkip(frameSkipCounter + 1)
    /\ frameSkipCounter' = frameSkipCounter + 1
    /\ raf' = (raf - 1) + 1
    /\ events' = <<>>
    /\ UNCHANGED <<gestureRest, startVars, videoReady, isProcessing, inflight, sent,
                   closed, lastSentTick>>

\* lines 263-266
WaitFrame ==
    /\ raf > 0 /\ frameSkipCounter < MaxTicks
    /\ ~ShouldSkip(frameSkipCounter + 1)
    /\ Blocked
    /\ frameSkipCounter' = frameSkipCounter + 1
    /\ raf' = (raf - 1) + 1
    /\ events' = <<>>
    /\ UNCHANGED <<gestureRest, startVars, videoReady, isProcessing, inflight, sent,
                   closed, lastSentTick>>

\* lines 268-284
SubmitFrame ==
    /\ raf > 0 /\ frameSkipCounter < MaxTicks /\ sent < MaxSent
    /\ ~ShouldSkip(frameSkipCounter + 1)
    /\ ~Blocked
    /\ frameSkipCounter' = frameSkipCounter + 1
    /\ sent' = sent + 1
    /\ \E after \in {SubmitReturns(raf - 1), SubmitThrows(raf - 1)} :
          /\ isProcessing' = after.isProcessing
          /\ raf' = after.raf
          /\ inflight' = after.inflight
          /\ events' = after.log
    /\ lastSentTick' = frameSkipCounter + 1
    /\ UNCHANGED <<gestureRest, startVars, videoReady, closed>>

\* faceMesh.send calls the handler of line 155 with its results and resolves
SendResolves ==
    /\ inflight > 0
    /\ \E res \in Frames : Deliver(res)
    /\ SendSettles
    /\ UNCHANGED startVars

\* faceMesh.send rejects: lines 273-275, then finally
SendRejects ==
    /\ inflight > 0
    /\ events' = <<"warn:frame-processing-error">>
    /\ SendSettles
    /\ UNCHANGED <<gestureRest, startVars>>

\* window.goldMinerFaceCleanup, lines 297-306, registered once the pacer has
\* started: the tracks are stopped and the FaceMesh closed.  No callback is
\* cancelled and no flag is set.  With its tracks stopped the video element
\* either keeps its last decoded frame or drops it.
Cleanup ==
    /\ pc = "running" /\ ~closed
    /\ closed' = TRUE
    /\ videoReady' \in {videoReady, FALSE}
    /\ events' = <<"status:stopped">>
    /\ UNCHANGED <<gestureRest, startVars, isProcessing, frameSkipCounter, raf, inflight,
                   sent, lastSentTick>>

Next ==
    \/ NoVideoElement \/ NoFaceMesh \/ ConstructorThrows \/ RequestCamera
    \/ GetUserMediaRejects \/ GetUserMediaResolves
    \/ LoadedMetadata \/ PlayResolves \/ PlayRejects \/ VideoError \/ CameraTimeout
    \/ VideoFrameDecoded
    \/ SkipFrame \/ WaitFrame \/ SubmitFrame \/ SendResolves \/ SendRejects
    \/ Cleanup

Spec == Init /\ [][Next]_vars

\* SpecLive: the host runs every callback it holds, and every send settles
SpecLive ==
    /\ Spec
    /\ WF_vars(SkipFrame) /\ WF_vars(WaitFrame) /\ WF_vars(SubmitFrame)
    /\ WF_vars(SendResolves \/ SendRejects)

----------------------------------------------------------------------------
(* SpecFrames: the handler alone, called with every sequence of results     *)
(* objects of length up to MaxFrames.                                       *)

HandleFrame ==
    /\ gameGestureState.frameCount < MaxFrames
    /\ \E res \in Frames : Deliver(res)
    /\ UNCHANGED <<startVars, pacerVars>>

InitFrames == InitGesture /\ InitRunning /\ smoother = NoSmoother
NextFrames == HandleFrame
SpecFrames == InitFrames /\ [][NextFrames]_vars

----------------------------------------------------------------------------
(* SpecCool: the handler alone, over MaxCoolFrames frames, with signals     *)
(* that stay extreme: every face carries a smile score pinned far above     *)
(* the threshold and a nose tip that moves down the image by NoseStep per   *)
(* frame, so that both classifiers would fire on every frame if no cooldown *)
(* held them back.  The face may drop out, for one frame at a time, up to   *)
(* MaxDrops times.                                                          *)

ExtremeScore == 1000     \* a smile score pinned at 1.0
NoseStep     == 5        \* the nose tip moves down 0.005 per frame

CoolFrames(n) ==
    {Face(TRUE, ExtremeScore, TRUE, NoseStep * n)}
    \cup (IF gameGestureState.faceDetected /\ acquiredCount <= MaxDrops
          THEN {NoFace} ELSE {})

HandleCoolFrame ==
    /\ gameGestureState.frameCount < MaxCoolFrames
    /\ \E res \in CoolFrames(gameGestureState.frameCount + 1) : Deliver(res)
    /\ UNCHANGED <<startVars, pacerVars>>

NextCool == HandleCoolFrame
SpecCool == InitFrames /\ [][NextCool]_vars

----------------------------------------------------------------------------
(* SpecNod: the handler alone, over MaxNodFrames frames, with a nose tip    *)
(* that moves down the image by NoseStep per frame.  A face hides its       *)
(* mouth, so that no smile starts the game, until on some frame it smiles   *)
(* at full score; the face may drop out as in SpecCool.                     *)

MaxNodFrames == 48

NodFrames(n) ==
    {Face(FALSE, 0, TRUE, NoseStep * n)}
    \cup (IF ~gameGestureState.gameStarted
          THEN {Face(TRUE, ExtremeScore, TRUE, NoseStep * n)} ELSE {})
    \cup (IF gameGestureState.faceDetected /\ acquiredCount <= MaxDrops
          THEN {NoFace} ELSE {})

HandleNodFrame ==
    /\ gameGestureState.frameCount < MaxNodFrames
    /\ \E res \in NodFrames(gameGestureState.frameCount + 1) : Deliver(res)
    /\ UNCHANGED <<startVars, pacerVars>>

NextNod == HandleNodFrame
SpecNod == InitFrames /\ [][NextNod]_vars

----------------------------------------------------------------------------
(* SpecPeriodic: the handler alone, over MaxPeriodicFrames frames.  A       *)
(* subject sits still for the first CalmFrames frames, mouth closed and     *)
(* nose at rest; after that every frame is no face, the same calm face, or  *)
(* a face that smiles at full score with its nose tip lower.                *)

MaxPeriodicFrames == 151
CalmFrames        == 144

CalmFace == Face(TRUE, 0, TRUE, 0)

PeriodicFrames(n) ==
    IF n <= CalmFrames THEN {CalmFace}
    ELSE {NoFace, CalmFace, Face(TRUE, ExtremeScore, TRUE, 10)}

HandlePeriodicFrame ==
    /\ gameGestureState.frameCount < MaxPeriodicFrames
    /\ \E res \in PeriodicFrames(gameGestureState.frameCount + 1) : Deliver(res)
    /\ UNCHANGED <<startVars, pacerVars>>

NextPeriodic == HandlePeriodicFrame
SpecPeriodic == InitFrames /\ [][NextPeriodic]_vars

----------------------------------------------------------------------------
(* SpecSmooth: smoothBuffer alone.  A window of some capacity starts empty  *)
(* and up to MaxPushes values are pushed through smoothBuffer.              *)

MaxCapacity == 3
MaxPushes   == 5

SmoothValues == {-10, 0, 10}

InitSmooth ==
    /\ InitGesture /\ InitRunning
    /\ \E c \in 1..MaxCapacity :
          smoother = [NoSmoother EXCEPT !.capacity = c]

Push ==
    /\ Len(smoother.pushed) < MaxPushes
    /\ \E v \in SmoothValues :
          LET w == smoothBuffer(smoother.window, v, smoother.capacity)
          IN  smoother' = [smoother EXCEPT !.window = w,
                                           !.pushed = Append(@, v),
                                           !.ret    = smoothBufferReturn(w)]
    /\ UNCHANGED <<gameGestureState, events, results, smilePulse, nodPulse, smileCount,
                   nodCount, acquiredCount, lastSmileFrame, lastNodFrame,
                   startVars, pacerVars>>

NextSmooth == Push
SpecSmooth == InitSmooth /\ [][NextSmooth]_vars

----------------------------------------------------------------------------
(* SpecScenario: the handler alone, fed the sequence "no subject on frames  *)
(* 1-50, then a subject on frames 51-ScenarioLength whose smile score is 0  *)
(* up to frame 150, rises linearly to 0.5 at frame 170 and is flat after".  *)
(* After the ramp the score either stays at 0.5 or falls back to 0, frame   *)
(* by frame; the nose tip does not move.                                    *)

ScenarioLength == 200

ScenarioScores(n) ==
    IF n < 150 THEN {0}
    ELSE IF n <= 170 THEN {(500 * (n - 150)) \div 20}
    ELSE {0, 500}

ScenarioFrames(n) ==
    IF n <= 50 THEN {NoFace}
    ELSE {Face(TRUE, s, TRUE, 0) : s \in ScenarioScores(n)}

HandleScenarioFrame ==
    /\ gameGestureState.frameCount < ScenarioLength
    /\ \E res \in ScenarioFrames(gameGestureState.frameCount + 1) : Deliver(res)
    /\ UNCHANGED <<startVars, pacerVars>>

NextScenario == HandleScenarioFrame
SpecScenario == InitFrames /\ [][NextScenario]_vars

----------------------------------------------------------------------------
(* Properties *)

FrameStep == gameGestureState'.frameCount = gameGestureState.frameCount + 1

\* C1: cooldown gating.  On every processed frame, a classifier fires only
\* if its cooldown counter was 0 when the frame came in, and never on a frame
\* before f+120 (smile) or f+45 (nod), f being the frame of its previous pulse.
C1_CooldownGating ==
    [][FrameStep =>
        /\ smilePulse' =>
             /\ gameGestureState.smileCooldown = 0
             /\ lastSmileFrame # 0 => gameGestureState'.frameCount >= lastSmileFrame + 120
        /\ nodPulse' =>
             /\ gameGestureState.nodCooldown = 0
             /\ lastNodFrame # 0 => gameGestureState'.frameCount >= lastNodFrame + 45
      ]_vars

\* the smile classifier fires for the second time, 120 frames after the first,
\* in a run where the nod classifier has fired three times, 45 frames apart,
\* and the signals were extreme on all the frames between
C1_Witness ==
    /\ smilePulse
    /\ gameGestureState.frameCount = 121
    /\ smileCount = 2
    /\ lastNodFrame = 92
    /\ nodCount = 3

Emitted(e) == \E i \in 1..Len(events) : events[i] = e
AcquiredEmitted == \E i \in 1..Len(events) : IsAcquired(events[i])

\* C2: pacer no-overlap.  At most one faceMesh.send promise is unsettled at
\* any time, in every interleaving of callbacks and completions.
C2_NoOverlap == inflight <= 1

\* a second submission is in flight, issued after the first one settled
C2_Witness == inflight = 1 /\ sent = 2 /\ isProcessing /\ raf = 0

\* the scenario's smoothed score on frame n, from the ramp alone: the mean of
\* the scores of the last four frames that had the subject
ScenarioScore(n) == CHOOSE s \in ScenarioScores(n) : TRUE
ScenarioSmoothedExceeds(n) ==
    LET from == IF n - 3 > 51 THEN n - 3 ELSE 51
    IN  Sum([i \in 1..(n - from + 1) |-> ScenarioScore(from + i - 1)]) > 280 * (n - from + 1)
FirstCrossing ==
    CHOOSE n \in 51..170 :
        ScenarioSmoothedExceeds(n) /\ \A m \in 51..(n - 1) : ~ScenarioSmoothedExceeds(m)

\* C3: end-to-end scenario.  Over the whole run exactly one smile event is
\* emitted, on the first frame whose 4-sample smoothed score exceeds 0.28, and
\* the face-acquired status is emitted exactly once, on frame 51.
C3_Scenario ==
    /\ smileCount = (IF gameGestureState.frameCount >= FirstCrossing THEN 1 ELSE 0)
    /\ Emitted("face:smile") <=> gameGestureState.frameCount = FirstCrossing
    /\ acquiredCount = (IF gameGestureState.frameCount >= 51 THEN 1 ELSE 0)
    /\ AcquiredEmitted <=> gameGestureState.frameCount = 51

\* the end of the scenario: one smile event, emitted on frame 163
C3_Witness ==
    /\ gameGestureState.frameCount = ScenarioLength
    /\ smileCount = 1
    /\ lastSmileFrame = 163
    /\ acquiredCount = 1

\* C4: in every startup-failure path the fallback event is emitted at most
\* once during the whole run.
C4_FallbackAtMostOnce == fallbackCount <= 1

\* C5: when camera acquisition fails, a fallback event is emitted and the
\* pacer is never started; a run that emits a fallback event never submits a
\* frame and never emits a smile or nod event.
C5_CameraFailureAborts ==
    /\ pc = "failed" => fallbackCount >= 1
    /\ fallbackCount >= 1 =>
         /\ raf = 0 /\ inflight = 0 /\ sent = 0
         /\ gameGestureState.frameCount = 0
         /\ smileCount = 0 /\ nodCount = 0

\* the camera setup timed out while the video was still loading, and the
\* video started playing afterwards
C5_Witness ==
    /\ pc = "failed" /\ camPromise = "rejected" /\ ~timerArmed
    /\ videoPhase = "settled" /\ Emitted("status:camera-ready")
    /\ fallbackCount = 1

\* C6: startup with the detection capability absent emits exactly one
\* fallback event, requests no camera, starts no pacer loop and submits nothing.
C6_CapabilityAbsent ==
    (~env.lib /\ pc # "start") =>
        /\ fallbackCount = 1
        /\ ~cameraRequested
        /\ raf = 0 /\ sent = 0

\* C7: face-presence status is edge-triggered.  On every processed frame the
\* face-acquired status is emitted iff the frame has a face and the flag was
\* false, and the face-lost status iff it has no face and the flag was true.
C7_EdgeTriggered ==
    [][FrameStep =>
        /\ AcquiredEmitted' <=> (results'.face /\ ~gameGestureState.faceDetected)
        /\ Emitted("status:no-face")' <=> (~results'.face /\ gameGestureState.faceDetected)
      ]_vars

\* a face frame that follows a re-acquisition and emits no status
C7_Witness ==
    /\ gameGestureState.frameCount = 4
    /\ acquiredCount = 2
    /\ gameGestureState.faceDetected /\ results.face
    /\ ~AcquiredEmitted

\* C8: on a processed frame where the face goes from absent to present, no
\* smile event and no nod event is emitted.
C8_NoEventOnAcquisition ==
    AcquiredEmitted => ~Emitted("face:smile") /\ ~Emitted("face:nod")

\* C9: on the first frame after a face is acquired or re-acquired, with no
\* nose-Y recorded, the nod classifier does not fire, whatever the landmarks;
\* the frame leaves the nod window alone and records the nose-Y if there is one.
C9_NodBaseline ==
    [][(FrameStep /\ results'.face /\ ~gameGestureState.faceDetected
                  /\ gameGestureState.lastNoseY = NoNoseY) =>
        /\ ~nodPulse'
        /\ ~Emitted("face:nod")'
        /\ gameGestureState'.nodBuffer = gameGestureState.nodBuffer
        /\ gameGestureState'.lastNoseY = (IF results'.nose THEN results'.y ELSE NoNoseY)
      ]_vars

\* a face is re-acquired with its nose tip far down the image and no nose-Y
\* recorded before: the frame records the baseline and fires nothing
C9_Witness ==
    /\ gameGestureState.frameCount = 3
    /\ acquiredCount = 2 /\ AcquiredEmitted
    /\ results.nose /\ results.y = 10
    /\ gameGestureState.lastNoseY = 10
    /\ gameGestureState.nodBuffer = <<>>
    /\ ~nodPulse

\* C10: a nod event is emitted on a processed frame iff the nod classifier
\* pulses on it and gameStarted is true at that point of the frame; no nod
\* event is emitted before the first smile event of the session.
C10_NodGated ==
    /\ Emitted("face:nod") <=> (nodPulse /\ gameGestureState.gameStarted)
    /\ nodCount > 0 => smileCount > 0
    /\ \A i \in 1..Len(events) :
          events[i] = "face:nod" =>
              \/ smileCount > Count(events, "face:smile")
              \/ \E j \in 1..(i - 1) : events[j] = "face:smile"

\* the first smile and a nod pulse on the same frame: the smile event comes
\* first and the nod event follows it
C10_Witness ==
    /\ Emitted("face:nod") /\ Emitted("face:smile")
    /\ smileCount = 1 /\ nodCount = 1

\* C11: every smile pulse emits exactly one smile event, whether the game
\* has started or not; only a pulse that finds gameStarted false sets it and
\* emits the game-started status.
C11_SmileAlwaysEmitted ==
    [][FrameStep =>
        /\ Count(events', "face:smile") = (IF smilePulse' THEN 1 ELSE 0)
        /\ Emitted("status:game-started")' <=> (smilePulse' /\ ~gameGestureState.gameStarted)
        /\ gameGestureState'.gameStarted <=> (gameGestureState.gameStarted \/ smilePulse')
      ]_vars

\* the second smile pulse of a session: a smile event and no status change
C11_Witness ==
    /\ smilePulse /\ smileCount = 2
    /\ Emitted("face:smile") /\ ~Emitted("status:game-started")
    /\ gameGestureState.gameStarted

\* C12: a processed frame with no face leaves gameStarted, the last nose-Y
\* and both smoothing windows alone; it changes only the frame counter, the
\* face-presence flag and the two cooldowns, each one less and never below 0.
\* No frame sets gameStarted back to false.
C12_NoFaceKeepsPlayState ==
    [][FrameStep =>
        /\ ~results'.face =>
             gameGestureState' =
                 [gameGestureState EXCEPT
                     !.frameCount    = @ + 1,
                     !.faceDetected  = FALSE,
                     !.smileCooldown = IF @ >= 1 THEN @ - 1 ELSE 0,
                     !.nodCooldown   = IF @ >= 1 THEN @ - 1 ELSE 0]
        /\ gameGestureState.gameStarted => gameGestureState'.gameStarted
      ]_vars

\* the face is lost in the middle of a game, with both cooldowns running and
\* both windows holding a sample
C12_Witness ==
    /\ ~results.face /\ Emitted("status:no-face")
    /\ gameGestureState.gameStarted
    /\ gameGestureState.smileBuffer # <<>> /\ gameGestureState.nodBuffer # <<>>
    /\ gameGestureState.smileCooldown = 116 /\ gameGestureState.nodCooldown = 42
    /\ gameGestureState.lastNoseY # NoNoseY

\* C18: after a frame that has the nose tip, the stored last nose-Y is that
\* frame's nose-Y, whether the nod classifier fired on it or not.
C18_LastNoseYTracksFrame ==
    (gameGestureState.frameCount > 0 /\ results.face /\ results.nose) =>
        gameGestureState.lastNoseY = results.y

\* C20: a nod pulse that comes while gameStarted is false is not surfaced,
\* and yet it starts the nod cooldown at 45 (44 once the frame has counted
\* it down) and clears the nod window; no nod event is emitted on the 44
\* frames that follow a nod pulse, surfaced or not.
C20_UnsurfacedNodCoolsDown ==
    [][FrameStep =>
        /\ nodPulse' =>
             /\ gameGestureState'.nodCooldown = 45 - 1
             /\ gameGestureState'.nodBuffer = <<>>
             /\ ~gameGestureState'.gameStarted => ~Emitted("face:nod")'
        /\ (Emitted("face:nod")' /\ lastNodFrame # 0) =>
             gameGestureState'.frameCount > lastNodFrame + 44
      ]_vars

\* the first nod event of a session, 45 frames after a nod pulse that was
\* not surfaced, in a game that a smile started in between
C20_Witness ==
    /\ Emitted("face:nod") /\ nodCount = 1
    /\ gameGestureState.frameCount = 47 /\ lastNodFrame = 47
    /\ lastSmileFrame > 2 /\ smileCount = 1

RefreshEmitted == Emitted("status:tracking-idle") \/ Emitted("status:tracking-playing")

\* C13: on every processed frame whose frame counter is a multiple of 150 a
\* status refresh is emitted, whatever the state (NoFace, FaceIdle, FacePlaying).
C13_RefreshEveryPeriod ==
    (gameGestureState.frameCount > 0 /\ gameGestureState.frameCount % 150 = 0) =>
        RefreshEmitted

\* C13, amended: a status refresh is emitted on exactly the processed frames
\* whose frame counter is a multiple of 150 and that have a face; it names
\* the mode the frame leaves, playing or idle.
C13_RefreshOnFaceFrames ==
    [][FrameStep =>
        /\ RefreshEmitted' <=> (gameGestureState'.frameCount % 150 = 0 /\ results'.face)
        /\ Emitted("status:tracking-playing")' => gameGestureState'.gameStarted
        /\ Emitted("status:tracking-idle")' => ~gameGestureState'.gameStarted
      ]_vars

\* frame 150 of a game that a smile started a few frames before
C13_Witness ==
    /\ gameGestureState.frameCount = 150
    /\ results.face /\ ~smilePulse
    /\ Emitted("status:tracking-playing")

Failed == Emitted("warn:frame-processing-error") \/ Emitted("warn:frame-send-error")

\* C14: the pacer loop sustains itself.  Once started, whenever no send is
\* in flight the flag is clear and a callback is requested; and after a send
\* that rejected or threw, another send is attempted, as long as the video
\* stays ready (and the bounds of the model leave room for two callbacks and
\* one send).
C14_SelfSustaining ==
    /\ [](pc = "running" /\ inflight = 0 => raf >= 1 /\ ~isProcessing)
    /\ \A k \in 0..MaxSent :
          []((Failed /\ sent = k /\ videoReady
                     /\ sent < MaxSent /\ frameSkipCounter + 2 <= MaxTicks)
             => <>(sent > k \/ ~videoReady))

\* the second send has failed and the next callback is requested
C14_Witness ==
    /\ Failed /\ sent = 2
    /\ raf = 1 /\ inflight = 0 /\ ~isProcessing
    /\ videoReady /\ frameSkipCounter + 2 <= MaxTicks

\* C15: after the teardown entrypoint has run, no frame is submitted to the
\* released detection capability.
C15_NoSubmitAfterTeardown == [][closed => sent' = sent]_vars

\* C16: smoother FIFO.  After every push into an initially empty window of
\* capacity C the window is the last min(N, C) of the N values pushed, in
\* order, and the value returned is the mean of exactly those.
C16_SmootherFIFO ==
    LET N    == Len(smoother.pushed)
        k    == IF N < smoother.capacity THEN N ELSE smoother.capacity
        last == SubSeq(smoother.pushed, N - k + 1, N)
    IN  /\ smoother.window = last
        /\ N > 0 => smoother.ret = [sum |-> Sum(last), n |-> k]

\* more values pushed than a window of capacity 2 holds, the oldest evicted
C16_Witness ==
    /\ smoother.capacity = 2
    /\ smoother.pushed = <<10, 0, -10, 10>>
    /\ smoother.window = <<-10, 10>>
    /\ smoother.ret = [sum |-> 0, n |-> 2]

\* C17: throughput halving.  A callback that submits a frame is at least the
\* second callback after the one that submitted before it, it is an even
\* callback, and the video had a decoded frame when it ran.
C17_EverySecondCallback ==
    [][sent' = sent + 1 =>
        /\ videoReady
        /\ frameSkipCounter' % 2 = 0
        /\ lastSentTick # 0 => frameSkipCounter' >= lastSentTick + 2
      ]_vars

\* submissions in the second and in the fourth callback
C17_Witness == sent = 2 /\ lastSentTick = 4 /\ frameSkipCounter = 4

\* C19: once the pacer has started exactly one continuation is outstanding,
\* a requested callback or a send in flight, never both and never two of
\* either; no callback is requested while the in-flight flag is true.
C19_OneContinuation ==
    /\ pc = "running" => raf + inflight = 1
    /\ pc # "running" => raf = 0 /\ inflight = 0
    /\ raf > 0 => ~isProcessing
    /\ isProcessing <=> inflight = 1

\* the third send has resolved with a smile and one callback is requested
C19_Witness ==
    /\ pc = "running" /\ sent = 3
    /\ raf = 1 /\ inflight = 0
    /\ Emitted("face:smile")

====
